---- MODULE Spec2Model ----
(***************************************************************************)
(* The MCS (T.125) client session of protocol/t125/mcs.go as a state       *)
(* machine.  The session is driven by the events of its transport:         *)
(* "connect" runs MCSClient.connect, "data" runs the one-shot listener     *)
(* that the previous step registered, "close" and "error" are forwarded.   *)
(* Buffers are sequences of bytes (0..255).                                *)
(***************************************************************************)
EXTENDS Integers, Sequences, FiniteSets, TLC

VARIABLES
    channels,            \* MCS.channels: sequence of [id, name]
    channelsConnected,   \* MCSClient.channelsConnected
    userId,              \* MCSClient.userId (uint16)
    serverCoreData,      \* MCSClient.serverCoreData     (Nil or a decoded block)
    serverNetworkData,   \* MCSClient.serverNetworkData
    serverSecurityData,  \* MCSClient.serverSecurityData
    onceData,            \* one-shot listeners pending on transport event "data"
    onData,              \* number of persistent listeners on transport event "data"
    written,             \* buffers handed to transport.Write, in order
    emitted,             \* notifications emitted by the session, in order
    joinCalls,           \* channel ids passed to sendChannelJoinRequest, in order
    inbox,               \* buffers delivered to a one-shot listener: [h, s, read]
    idleData,            \* buffers delivered while no one-shot listener was registered
    connectFired,        \* the transport has signalled "connect"
    panicked,            \* a handler was aborted by a run-time panic
    codec                \* a codec function under test: [fn, in, out, done]

vars == <<channels, channelsConnected, userId, serverCoreData, serverNetworkData,
          serverSecurityData, onceData, onData, written, emitted, joinCalls,
          inbox, idleData, connectFired, panicked, codec>>

session == <<channels, channelsConnected, userId, serverCoreData,
             serverNetworkData, serverSecurityData>>

----------------------------------------------------------------------------
(* Constants of mcs.go *)

MCS_TYPE_CONNECT_INITIAL == 101
MCS_TYPE_CONNECT_RESPONSE == 102

ERECT_DOMAIN_REQUEST == 1
DISCONNECT_PROVIDER_ULTIMATUM == 8
ATTACH_USER_REQUEST == 10
ATTACH_USER_CONFIRM == 11
CHANNEL_JOIN_REQUEST == 14
CHANNEL_JOIN_CONFIRM == 15
SEND_DATA_REQUEST == 25
SEND_DATA_INDICATION == 26

MCS_GLOBAL_CHANNEL == 1003
MCS_USERCHANNEL_BASE == 1001

(* Bounds of the model *)
MaxBlocks == 3       \* capability blocks in the user data of a Connect Response
MaxEvents == 1       \* "close"/"error" events signalled by the transport
MaxData == 1         \* buffers delivered while no one-shot listener is registered

----------------------------------------------------------------------------
(* Integer widths *)

U8(n) == n % 256
U16(n) == n % 65536

\* big-endian 16-bit integer as two bytes
U16BE(n) == <<(n \div 256) % 256, n % 256>>

----------------------------------------------------------------------------
(* PDU header codec *)

\* writeMCSPDUHeader: the byte (uint8(mcsPdu) << 2) | options.  The shifted
\* opcode has its two low bits clear, so or-ing options in 0..3 adds them.
writeMCSPDUHeader(mcsPdu, options) == U8(U8(mcsPdu) * 4) + (options % 4)

\* readMCSPDUHeader comparing the whole byte with the opcode
readMCSPDUHeaderNoShift(options, mcsPdu) == options = U8(mcsPdu)

readMCSPDUHeader(options, mcsPdu) == (options \div 4) = U8(mcsPdu)

----------------------------------------------------------------------------
(* Readers of package core / per over a buffer s read from offset off      *)
(* (0-based count of bytes already consumed)                               *)

\* core.ReadUInt8 / per.ReadEnumerates: one byte, or an error at end of buffer
ReadUInt8(s, off) ==
    IF off + 1 <= Len(s)
    THEN [ok |-> TRUE, val |-> s[off + 1], off |-> off + 1]
    ELSE [ok |-> FALSE, val |-> 0, off |-> off]

ReadEnumerates(s, off) == ReadUInt8(s, off)

\* per.ReadInteger16: two bytes, big-endian; on a short buffer an error and
\* the zero value, the bytes that were there being consumed
ReadInteger16(s, off) ==
    IF off + 2 <= Len(s)
    THEN [ok |-> TRUE, val |-> s[off + 1] * 256 + s[off + 2], off |-> off + 2]
    ELSE [ok |-> FALSE, val |-> 0, off |-> Len(s)]

\* per.WriteInteger for a value below 256: length 1, then the value
PerWriteInteger(n) == <<1, n>>

----------------------------------------------------------------------------
(* Connect messages *)

NewDomainParameters(a, b, c, d, e, f, g, h) == <<a, b, c, d, e, f, g, h>>

NewConnectResponse(userData) ==
    [result |-> 0, calledConnectId |-> 0,
     domainParameters |-> NewDomainParameters(22, 3, 0, 1, 0, 1, 65528, 2),
     userData |-> userData]

\* ReadConnectResponse: the reader is not consulted; the result is the
\* default response with empty user data and a nil error
ReadConnectResponse(s) == [err |-> "nil", resp |-> NewConnectResponse(<<>>)]

\* The Connect Initial as written by connect(): the application tag 0x65,
\* the BER length and body being left out of the model
ConnectInitialPDU == <<MCS_TYPE_CONNECT_INITIAL>>

\* GCC user data: a sequence of capability blocks, each abstracted to the low
\* byte of its block type (0x0C01 core, 0x0C02 security, 0x0C03 network)
SC_CORE == 1
SC_SECURITY == 2
SC_NET == 3

\* the nil pointer of a server-data field
Nil == [type |-> "nil", tag |-> 0]

\* gcc.ReadConferenceCreateResponse: one decoded block per block of the user
\* data, in order, typed by its block type
DecodedBlock(tag) ==
    CASE tag = SC_CORE -> [type |-> "*gcc.ServerCoreData", tag |-> tag]
      [] tag = SC_SECURITY -> [type |-> "*gcc.ServerSecurityData", tag |-> tag]
      [] tag = SC_NET -> [type |-> "*gcc.ServerNetworkData", tag |-> tag]
      [] OTHER -> [type |-> "unknown", tag |-> tag]

ReadConferenceCreateResponse(userData) ==
    [i \in 1..Len(userData) |-> DecodedBlock(userData[i])]

\* The type switch of recvConnectResponse over the decoded blocks.  A case
\* matches a value of the struct type itself; its body then asserts the
\* pointer type, which such a value does not have.  Every other dynamic type,
\* the pointer types included, reaches the default.  Each iteration therefore
\* leaves the loop, and no server-data field is assigned by it.
RecordServerBlocks(serverSettings) ==
    IF serverSettings = <<>> THEN "done"
    ELSE IF serverSettings[1].type \in
              {"gcc.ServerSecurityData", "gcc.ServerCoreData", "gcc.ServerNetworkData"}
         THEN "panic"
         ELSE "error"

\* sendErectDomainRequest / sendAttachUserRequest: the buffer written
ErectDomainRequestPDU ==
    <<writeMCSPDUHeader(ERECT_DOMAIN_REQUEST, 0)>> \o PerWriteInteger(0) \o PerWriteInteger(0)

AttachUserRequestPDU == <<writeMCSPDUHeader(ATTACH_USER_REQUEST, 0)>>

\* sendChannelJoinRequest: the buffers written for a join of channelId (none)
sendChannelJoinRequest(channelId) == <<>>

----------------------------------------------------------------------------
(* Notifications *)

NoChannels == <<>>

Ev(ev, err, uid, chs) == [ev |-> ev, err |-> err, userId |-> uid, channels |-> chs]
ErrorEv(err) == Ev("error", err, 0, NoChannels)
CloseEv == Ev("close", "", 0, NoChannels)
ConnectEv(uid, chs) == Ev("connect", "", uid, chs)

BAD_HEADER == "NODE_RDP_PROTOCOL_T125_MCS_BAD_HEADER"
SERVER_REJECT_USER == "NODE_RDP_PROTOCOL_T125_MCS_SERVER_REJECT_USER'"
READ_ERROR == "EOF"
WRITE_ERROR == "mcs sendConnectInitial write error"
TRANSPORT_ERROR == "transport error"

CountEv(P(_)) == Cardinality({i \in DOMAIN emitted : P(emitted[i])})
IsConnect(e) == e.ev = "connect"
IsError(e) == e.ev = "error"
IsTransportEv(e) == e.ev = "close" \/ (e.ev = "error" /\ e.err = TRANSPORT_ERROR)

----------------------------------------------------------------------------
(* Buffers the peer may send *)

BlockTags == {SC_CORE, SC_SECURITY, SC_NET, 4}
\* the user data carries each kind of block at most once
BlockSeqs ==
    {b \in UNION {[1..n -> BlockTags] : n \in 0..MaxBlocks} :
        \A i, j \in DOMAIN b : b[i] = b[j] => i = j}

\* a Connect Response is abstracted to its application tag followed by the
\* capability blocks of its user data
ConnectResponseBufs ==
    {<<t>> \o b : t \in {MCS_TYPE_CONNECT_RESPONSE, MCS_TYPE_CONNECT_INITIAL}, b \in BlockSeqs}

HeaderBytes == {44, 45, 40}
ResultBytes == {0, 1}
AssignedIds == {5, 64535}

Prefixes(m) == {SubSeq(m, 1, k) : k \in 0..Len(m)}

AttachUserConfirmBufs ==
    UNION {Prefixes(<<h, r>> \o U16BE(n)) :
             h \in HeaderBytes, r \in ResultBytes, n \in AssignedIds}

JoinConfirm(h, uid, ch) == <<h>> \o U16BE(uid) \o U16BE(ch)

\* the confirms the peer may answer the latest join request with: the right
\* or a wrong opcode, echoing the requested channel id or another one
JoinConfirmBufs ==
    IF joinCalls = <<>> THEN {}
    ELSE {JoinConfirm(h, userId, ch) :
            h \in {60, 56}, ch \in {joinCalls[Len(joinCalls)], 1004}}

OtherBufs == {<<104, 1>>}

----------------------------------------------------------------------------
(* Construction: NewMCSClient / NewMCS *)

NewChannels == <<[id |-> MCS_GLOBAL_CHANNEL, name |-> "global"]>>

\* no codec function is under test while a session runs
NoCodec == [fn |-> "none", in |-> <<>>, out |-> <<>>, done |-> FALSE]

Init ==
    /\ channels = NewChannels
    /\ channelsConnected = 0
    /\ userId = 0
    /\ serverCoreData = Nil
    /\ serverNetworkData = Nil
    /\ serverSecurityData = Nil
    /\ onceData = <<>>
    /\ onData = 0
    /\ written = <<>>
    /\ emitted = <<>>
    /\ joinCalls = <<>>
    /\ inbox = <<>>
    /\ idleData = <<>>
    /\ connectFired = FALSE
    /\ panicked = FALSE
    /\ codec = NoCodec

----------------------------------------------------------------------------
(* Handlers *)

\* MCSClient.connect, run by the transport's "connect" event, which the lower
\* layer signals once per transport.  writeOk is the outcome of transport.Write.
connect(writeOk) ==
    /\ ~connectFired
    /\ connectFired' = TRUE
    /\ written' = Append(written, ConnectInitialPDU)
    /\ IF writeOk
       THEN /\ onceData' = Append(onceData, "recvConnectResponse")
            /\ UNCHANGED emitted
       ELSE /\ emitted' = Append(emitted, ErrorEv(WRITE_ERROR))
            /\ UNCHANGED onceData
    /\ UNCHANGED <<session, onData, joinCalls, inbox, idleData, panicked, codec>>

\* the one-shot listener h is the next to fire on a "data" event
Pending(h) ==
    /\ onceData # <<>>
    /\ Head(onceData) = h

Delivered(h, s, read) ==
    /\ inbox' = Append(inbox, [h |-> h, s |-> s, read |-> read])
    /\ UNCHANGED idleData

\* recvConnectResponse sending the Attach User Request before the Erect
\* Domain Request
recvConnectResponseAttachFirst(s) ==
    LET cResp == ReadConnectResponse(s)
        serverSettings == ReadConferenceCreateResponse(cResp.resp.userData)
        loop == RecordServerBlocks(serverSettings)
    IN  /\ Pending("recvConnectResponse")
        /\ Delivered("recvConnectResponse", s, 0)
        /\ IF cResp.err # "nil"
           THEN /\ emitted' = Append(emitted, ErrorEv(cResp.err))
                /\ onceData' = Tail(onceData)
                /\ UNCHANGED <<written, panicked>>
           ELSE CASE loop = "error" ->
                       /\ emitted' = Append(emitted, ErrorEv("unhandle server gcc block"))
                       /\ onceData' = Tail(onceData)
                       /\ UNCHANGED <<written, panicked>>
                  [] loop = "panic" ->
                       /\ panicked' = TRUE
                       /\ onceData' = Tail(onceData)
                       /\ UNCHANGED <<written, emitted>>
                  [] OTHER ->
                       /\ written' = written \o <<AttachUserRequestPDU, ErectDomainRequestPDU>>
                       /\ onceData' = Append(Tail(onceData), "recvAttachUserConfirm")
                       /\ UNCHANGED <<emitted, panicked>>
        /\ UNCHANGED <<session, onData, joinCalls, connectFired, codec>>

\* MCSClient.recvConnectResponse
recvConnectResponse(s) ==
    LET cResp == ReadConnectResponse(s)
        serverSettings == ReadConferenceCreateResponse(cResp.resp.userData)
        loop == RecordServerBlocks(serverSettings)
    IN  /\ Pending("recvConnectResponse")
        /\ Delivered("recvConnectResponse", s, 0)
        /\ IF cResp.err # "nil"
           THEN /\ emitted' = Append(emitted, ErrorEv(cResp.err))
                /\ onceData' = Tail(onceData)
                /\ UNCHANGED <<written, panicked>>
           ELSE CASE loop = "error" ->
                       /\ emitted' = Append(emitted, ErrorEv("unhandle server gcc block"))
                       /\ onceData' = Tail(onceData)
                       /\ UNCHANGED <<written, panicked>>
                  [] loop = "panic" ->
                       /\ panicked' = TRUE
                       /\ onceData' = Tail(onceData)
                       /\ UNCHANGED <<written, emitted>>
                  [] OTHER ->
                       /\ written' = written \o <<ErectDomainRequestPDU, AttachUserRequestPDU>>
                       /\ onceData' = Append(Tail(onceData), "recvAttachUserConfirm")
                       /\ UNCHANGED <<emitted, panicked>>
        /\ UNCHANGED <<session, onData, joinCalls, connectFired, codec>>

\* connectChannels line 351: every channel of the registry has been requested
AllChannelsJoinedEarly(connected, n) == connected = n - 1

AllChannelsJoined(connected, n) == connected = n

\* connectChannels registering its one-shot listener a second time
connectChannelsOnceTwice(chs, uid, once) ==
    LET done == AllChannelsJoined(channelsConnected, Len(chs))
        emitted1 == IF done THEN Append(emitted, ConnectEv(uid, chs)) ELSE emitted
    IN  /\ onData' = IF done THEN onData + 1 ELSE onData
        /\ emitted' = emitted1
        /\ IF channelsConnected + 1 \in DOMAIN chs
           THEN /\ joinCalls' = Append(joinCalls, chs[channelsConnected + 1].id)
                /\ written' = written \o sendChannelJoinRequest(chs[channelsConnected + 1].id)
                /\ channelsConnected' = channelsConnected + 1
                /\ onceData' = once \o <<"recvChannelJoinConfirm", "recvChannelJoinConfirm">>
                /\ UNCHANGED panicked
           ELSE /\ panicked' = TRUE
                /\ onceData' = once
                /\ UNCHANGED <<joinCalls, written, channelsConnected>>

\* MCSClient.connectChannels, called with the registry chs and user id uid of
\* the session and the one-shot listeners once that remain registered.  After
\* the "connect" branch the function goes on to index the registry: an index
\* equal to its length is a run-time panic that aborts the handler.
connectChannels(chs, uid, once) ==
    LET done == AllChannelsJoined(channelsConnected, Len(chs))
        emitted1 == IF done THEN Append(emitted, ConnectEv(uid, chs)) ELSE emitted
    IN  /\ onData' = IF done THEN onData + 1 ELSE onData
        /\ emitted' = emitted1
        /\ IF channelsConnected + 1 \in DOMAIN chs
           THEN /\ joinCalls' = Append(joinCalls, chs[channelsConnected + 1].id)
                /\ written' = written \o sendChannelJoinRequest(chs[channelsConnected + 1].id)
                /\ channelsConnected' = channelsConnected + 1
                /\ onceData' = Append(once, "recvChannelJoinConfirm")
                /\ UNCHANGED panicked
           ELSE /\ panicked' = TRUE
                /\ onceData' = once
                /\ UNCHANGED <<joinCalls, written, channelsConnected>>

\* the steps of recvAttachUserConfirm on buffer s, up to the call of
\* connectChannels: the error emitted ("nil" if none), the user id computed
\* and the number of bytes read from s
AttachUserConfirmNoHeaderCheck(s) ==
    LET option == ReadUInt8(s, 0)
        e == ReadEnumerates(s, option.off)
        id == ReadInteger16(s, e.off)
    IN  IF ~option.ok THEN [err |-> READ_ERROR, userId |-> 0, read |-> option.off]
        ELSE IF ~e.ok THEN [err |-> READ_ERROR, userId |-> 0, read |-> e.off]
        ELSE IF e.val # 0 THEN [err |-> SERVER_REJECT_USER, userId |-> 0, read |-> e.off]
        ELSE [err |-> "nil", userId |-> U16(id.val + MCS_USERCHANNEL_BASE), read |-> id.off]

AttachUserConfirmNoResultCheck(s) ==
    LET option == ReadUInt8(s, 0)
        e == ReadEnumerates(s, option.off)
        id == ReadInteger16(s, e.off)
    IN  IF ~option.ok THEN [err |-> READ_ERROR, userId |-> 0, read |-> option.off]
        ELSE IF ~readMCSPDUHeader(option.val, ATTACH_USER_CONFIRM)
             THEN [err |-> BAD_HEADER, userId |-> 0, read |-> option.off]
        ELSE IF ~e.ok THEN [err |-> READ_ERROR, userId |-> 0, read |-> e.off]
        ELSE [err |-> "nil", userId |-> U16(id.val + MCS_USERCHANNEL_BASE), read |-> id.off]

AttachUserConfirm(s) ==
    LET option == ReadUInt8(s, 0)
        e == ReadEnumerates(s, option.off)
        id == ReadInteger16(s, e.off)
    IN  IF ~option.ok THEN [err |-> READ_ERROR, userId |-> 0, read |-> option.off]
        ELSE IF ~readMCSPDUHeader(option.val, ATTACH_USER_CONFIRM)
             THEN [err |-> BAD_HEADER, userId |-> 0, read |-> option.off]
        ELSE IF ~e.ok THEN [err |-> READ_ERROR, userId |-> 0, read |-> e.off]
        ELSE IF e.val # 0 THEN [err |-> SERVER_REJECT_USER, userId |-> 0, read |-> e.off]
        ELSE [err |-> "nil", userId |-> U16(id.val + MCS_USERCHANNEL_BASE), read |-> id.off]

\* MCSClient.recvAttachUserConfirm
recvAttachUserConfirm(s) ==
    LET r == AttachUserConfirm(s)
        chs == Append(channels, [id |-> r.userId, name |-> "user"])
    IN  /\ Pending("recvAttachUserConfirm")
        /\ Delivered("recvAttachUserConfirm", s, r.read)
        /\ IF r.err # "nil"
           THEN /\ emitted' = Append(emitted, ErrorEv(r.err))
                /\ onceData' = Tail(onceData)
                /\ UNCHANGED <<channels, channelsConnected, userId, onData, written,
                               joinCalls, panicked>>
           ELSE /\ userId' = r.userId
                /\ channels' = chs
                /\ connectChannels(chs, r.userId, Tail(onceData))
        /\ UNCHANGED <<serverCoreData, serverNetworkData, serverSecurityData, connectFired,
                       codec>>

\* MCSClient.recvChannelJoinConfirm: the buffer is not read
recvChannelJoinConfirm(s) ==
    /\ Pending("recvChannelJoinConfirm")
    /\ Delivered("recvChannelJoinConfirm", s, 0)
    /\ connectChannels(channels, userId, Tail(onceData))
    /\ UNCHANGED <<channels, userId, serverCoreData, serverNetworkData,
                   serverSecurityData, connectFired, codec>>

\* a "data" event with no one-shot listener registered: it reaches the
\* persistent listener installed by connectChannels (an empty function), or
\* no listener at all
recvData(s) ==
    /\ Len(idleData) < MaxData
    /\ onceData = <<>>
    /\ idleData' = Append(idleData, [h |-> IF onData > 0 THEN "persistent" ELSE "none", s |-> s])
    /\ UNCHANGED <<session, onceData, onData, written, emitted, joinCalls, inbox,
                   connectFired, panicked, codec>>

\* the listeners NewMCS registers on the transport's "close" and "error"
transportEvent(e) ==
    /\ CountEv(IsTransportEv) < MaxEvents
    /\ emitted' = Append(emitted, e)
    /\ UNCHANGED <<session, onceData, onData, written, joinCalls, inbox, idleData,
                   connectFired, panicked, codec>>

onClose == transportEvent(CloseEv)

onError == transportEvent(ErrorEv(TRANSPORT_ERROR))

----------------------------------------------------------------------------

Next ==
    \/ \E writeOk \in BOOLEAN : connect(writeOk)
    \/ \E s \in ConnectResponseBufs : recvConnectResponse(s)
    \/ \E s \in AttachUserConfirmBufs : recvAttachUserConfirm(s)
    \/ \E s \in JoinConfirmBufs : recvChannelJoinConfirm(s)
    \/ \E s \in OtherBufs : recvData(s)
    \/ onClose
    \/ onError

Spec == Init /\ [][Next]_vars

----------------------------------------------------------------------------
(* What the claims speak of *)

Connected == \E i \in DOMAIN emitted : IsConnect(emitted[i])

IsSessionError(e) == e.ev = "error" /\ e.err # TRANSPORT_ERROR
Emitted(err) == \E i \in DOMAIN emitted : emitted[i] = ErrorEv(err)

\* the buffers a handler has received, as indices of inbox
Handled(h) == {i \in DOMAIN inbox : inbox[i].h = h}
JoinConfirmsReceived == Cardinality(Handled("recvChannelJoinConfirm"))

Opcode(byte) == byte \div 4
IsJoinRequestWrite(w) == w # <<>> /\ Opcode(w[1]) = CHANNEL_JOIN_REQUEST
JoinRequestWrites == SelectSeq(written, IsJoinRequestWrite)
Wrote(pdu) == \E i \in DOMAIN written : written[i] = pdu

\* the wire form of a Channel Join Request: header, user id, channel id
JoinRequestPDU(uid, ch) == <<CHANNEL_JOIN_REQUEST * 4>> \o U16BE(uid) \o U16BE(ch)

UserRegistry(id) == <<[id |-> 1003, name |-> "global"], [id |-> id, name |-> "user"]>>

\* a complete Attach User Confirm with the right opcode and result 0
IsAttachOk(s) == Len(s) = 4 /\ Opcode(s[1]) = ATTACH_USER_CONFIRM /\ s[2] = 0
AssignedId(s) == s[3] * 256 + s[4]

\* the capability blocks of a Connect Response buffer
IsConnectResponse(s) == s # <<>> /\ s[1] = MCS_TYPE_CONNECT_RESPONSE
Blocks(s) == Tail(s)
KnownBlocks == {SC_CORE, SC_SECURITY, SC_NET}
HasUnknownBlock(s) == \E k \in DOMAIN Blocks(s) : Blocks(s)[k] \notin KnownBlocks
HasOneOfEach(s) ==
    /\ Len(Blocks(s)) = 3
    /\ {Blocks(s)[k] : k \in DOMAIN Blocks(s)} = KnownBlocks

\* the k-th Channel Join Confirm received matches the k-th request
JoinConfirmEntries == SelectSeq(inbox, LAMBDA m : m.h = "recvChannelJoinConfirm")
ConfirmMatches(k) ==
    LET s == JoinConfirmEntries[k].s
    IN  /\ Len(s) = 5
        /\ Opcode(s[1]) = CHANNEL_JOIN_CONFIRM
        /\ s[4] * 256 + s[5] = joinCalls[k]

\* every buffer received so far is the well-formed answer to its step
WellFormedRun ==
    /\ \A i \in Handled("recvConnectResponse") :
          IsConnectResponse(inbox[i].s) /\ ~HasUnknownBlock(inbox[i].s)
    /\ \A i \in Handled("recvAttachUserConfirm") : IsAttachOk(inbox[i].s)
    /\ \A k \in DOMAIN JoinConfirmEntries : ConfirmMatches(k)

----------------------------------------------------------------------------
(* C1 *)

\* C1: in a run where the peer answers every step with a well-formed message
\* (Attach User Confirm with result 0 and assigned id u), "connect" is emitted
\* exactly once, carries user id u+1001 and the registry
\* [(1003,"global"), (u+1001,"user")], and is not emitted before every
\* registered channel has been confirmed.
C1_ConnectOnceAfterJoins ==
    WellFormedRun =>
        /\ CountEv(IsConnect) <= 1
        /\ (Connected => JoinConfirmsReceived >= Len(channels))
        /\ \A i \in Handled("recvAttachUserConfirm") :
              LET u == AssignedId(inbox[i].s)
              IN  /\ JoinConfirmsReceived = 2 => CountEv(IsConnect) = 1
                  /\ \A j \in DOMAIN emitted :
                        IsConnect(emitted[j]) =>
                            /\ emitted[j].userId = u + 1001
                            /\ emitted[j].channels = UserRegistry(u + 1001)

\* the same statement for the assigned ids whose user channel id fits 16 bits
C1_ConnectOnceSmallIds ==
    (\A i \in Handled("recvAttachUserConfirm") :
        Len(inbox[i].s) = 4 => AssignedId(inbox[i].s) + 1001 < 65536)
    => C1_ConnectOnceAfterJoins

----------------------------------------------------------------------------
(* C2 *)

\* C2: during the join phase one Channel Join Request is written per channel
\* of the registry, in registry order, each carrying the
\* CHANNEL_JOIN_REQUEST header, the session's user id and the id of the
\* channel at the join index; a registry of 2 channels gives 2 such writes.
C2_OneJoinRequestPerChannel ==
    /\ Len(JoinRequestWrites) = Len(joinCalls)
    /\ \A k \in DOMAIN joinCalls :
          /\ k \in DOMAIN JoinRequestWrites
          /\ JoinRequestWrites[k] = JoinRequestPDU(userId, channels[k].id)
    /\ (Connected => Len(JoinRequestWrites) = Len(channels))

----------------------------------------------------------------------------
(* C3 *)

\* C3: the joined counter counts confirmed joins only: in every state it is
\* at most the number of Channel Join Confirms received, it never decreases,
\* and the request for index i+1 is not issued before the confirm for index i
\* has arrived.
C3_CounterCountsConfirms ==
    /\ [](/\ channelsConnected <= JoinConfirmsReceived
          /\ Len(joinCalls) <= JoinConfirmsReceived + 1)
    /\ [][channelsConnected' >= channelsConnected]_vars

\* the parts of C3 that do not depend on when the counter is advanced
C3_MonotoneAndOrdered ==
    /\ [](Len(joinCalls) <= JoinConfirmsReceived + 1)
    /\ [][channelsConnected' >= channelsConnected]_vars

----------------------------------------------------------------------------
(* C4 *)

\* C4: once "connect" has been emitted the session performs no further
\* handshake step: in the step that emits it and in every later step nothing
\* is written, no join request is issued, the joined counter keeps its value
\* and no one-shot listener is registered; only the persistent data handler
\* is installed.
C4_NoStepAfterConnect ==
    [][Connected' =>
          /\ written' = written
          /\ joinCalls' = joinCalls
          /\ channelsConnected' = channelsConnected
          /\ onceData' = <<>>
          /\ onData' = 1]_vars

\* "connect" was emitted and a later buffer reached the persistent handler
C4_Witness ==
    /\ Connected
    /\ \E i \in DOMAIN idleData : idleData[i].h = "persistent"

----------------------------------------------------------------------------
(* C5 *)

\* C5: a Channel Join Confirm whose opcode is not CHANNEL_JOIN_CONFIRM or
\* whose echoed channel id differs from the most recently requested one makes
\* the session emit an error, leaves the joined counter where it was, causes
\* no further join request and "connect" is never emitted.
C5_BadJoinConfirmIsFatal ==
    \A k \in DOMAIN JoinConfirmEntries :
        ~ConfirmMatches(k) =>
            /\ \E i \in DOMAIN emitted : IsSessionError(emitted[i])
            /\ channelsConnected <= k
            /\ Len(joinCalls) <= k
            /\ ~Connected

----------------------------------------------------------------------------
(* C6 *)

NoJoinStarted ==
    /\ joinCalls = <<>>
    /\ channelsConnected = 0
    /\ JoinRequestWrites = <<>>
    /\ onceData = <<>>

\* C6: an Attach User Confirm whose header byte has top 6 bits other than
\* ATTACH_USER_CONFIRM makes the session emit the bad-header error after
\* reading the header byte only; user id and registry keep their values and
\* no channel join starts.
C6_BadAttachHeader ==
    \A i \in Handled("recvAttachUserConfirm") :
        LET s == inbox[i].s
        IN  (s # <<>> /\ Opcode(s[1]) # ATTACH_USER_CONFIRM) =>
                /\ Emitted(BAD_HEADER)
                /\ inbox[i].read = 1
                /\ userId = 0
                /\ channels = NewChannels
                /\ NoJoinStarted

\* a complete confirm with opcode ATTACH_USER_REQUEST and result 0 was received
C6_Witness ==
    \E i \in Handled("recvAttachUserConfirm") :
        LET s == inbox[i].s
        IN  Len(s) = 4 /\ Opcode(s[1]) = ATTACH_USER_REQUEST /\ s[2] = 0

----------------------------------------------------------------------------
(* C7 *)

\* C7: an Attach User Confirm with the right header and a non-zero result
\* makes the session emit the "server rejected user" error; no user id is
\* recorded, the registry stays [(1003,"global")] and no Channel Join Request
\* is sent.
C7_UserRejected ==
    \A i \in Handled("recvAttachUserConfirm") :
        LET s == inbox[i].s
        IN  (Len(s) >= 2 /\ Opcode(s[1]) = ATTACH_USER_CONFIRM /\ s[2] # 0) =>
                /\ Emitted(SERVER_REJECT_USER)
                /\ userId = 0
                /\ channels = <<[id |-> 1003, name |-> "global"]>>
                /\ NoJoinStarted

\* a complete confirm with the right header and result 1 was received
C7_Witness ==
    \E i \in Handled("recvAttachUserConfirm") :
        LET s == inbox[i].s
        IN  Len(s) = 4 /\ Opcode(s[1]) = ATTACH_USER_CONFIRM /\ s[2] = 1

----------------------------------------------------------------------------
(* C8 *)

\* C8: the registry is [(1003,"global")] from construction until a successful
\* Attach User Confirm, and [(1003,"global"), (n+1001,"user")] after an Attach
\* User Confirm with result 0 and assigned id n; nothing is removed,
\* reordered or appended twice.
C8_RegistryAppendOnly ==
    LET ok == {i \in Handled("recvAttachUserConfirm") : IsAttachOk(inbox[i].s)}
    IN  /\ ok = {} => channels = <<[id |-> 1003, name |-> "global"]>>
        /\ \A i \in ok : channels = UserRegistry(AssignedId(inbox[i].s) + 1001)

----------------------------------------------------------------------------
(* C9 *)

\* C9: a Connect Response whose user data holds a capability block that is
\* none of core, security, network makes the session emit exactly one error
\* and abort: no Erect Domain Request and no Attach User Request is written,
\* no listener for the Attach User Confirm is registered and no server-data
\* field is populated beyond the blocks classified before the unknown one.
C9_UnknownBlockAborts ==
    \A i \in Handled("recvConnectResponse") :
        LET s == inbox[i].s
            b == Blocks(s)
            first == CHOOSE k \in DOMAIN b :
                        /\ b[k] \notin KnownBlocks
                        /\ \A j \in 1..(k - 1) : b[j] \in KnownBlocks
            before == {b[j] : j \in 1..(first - 1)}
        IN  (IsConnectResponse(s) /\ HasUnknownBlock(s)) =>
                /\ CountEv(IsSessionError) = 1
                /\ ~Wrote(ErectDomainRequestPDU)
                /\ ~Wrote(AttachUserRequestPDU)
                /\ Handled("recvAttachUserConfirm") = {}
                /\ \A k \in DOMAIN onceData : onceData[k] # "recvAttachUserConfirm"
                /\ (SC_CORE \notin before => serverCoreData = Nil)
                /\ (SC_SECURITY \notin before => serverSecurityData = Nil)
                /\ (SC_NET \notin before => serverNetworkData = Nil)

----------------------------------------------------------------------------
(* C10 *)

\* C10: a Connect Response whose user data holds one block each of core,
\* security and network server data leaves recvConnectResponse with the
\* three server-data fields populated with those blocks, no error emitted,
\* and the erect-domain / attach-user step taken.
C10_AllBlocksPopulated ==
    \A i \in Handled("recvConnectResponse") :
        LET s == inbox[i].s
        IN  (IsConnectResponse(s) /\ HasOneOfEach(s)) =>
                /\ serverCoreData.tag = SC_CORE
                /\ serverSecurityData.tag = SC_SECURITY
                /\ serverNetworkData.tag = SC_NET
                /\ (Len(inbox) = 1 => CountEv(IsSessionError) = 0)
                /\ Wrote(ErectDomainRequestPDU)
                /\ Wrote(AttachUserRequestPDU)

\* C10, what the code does on such a response: it takes the erect-domain /
\* attach-user step without an error and leaves the three fields nil
C10_StepTakenFieldsNil ==
    \A i \in Handled("recvConnectResponse") :
        /\ serverCoreData = Nil /\ serverSecurityData = Nil /\ serverNetworkData = Nil
        /\ (Len(inbox) = 1 => CountEv(IsSessionError) = 0)
        /\ Wrote(ErectDomainRequestPDU)
        /\ Wrote(AttachUserRequestPDU)

----------------------------------------------------------------------------
(* C11 *)

HasError == \E i \in DOMAIN emitted : IsError(emitted[i])
HasSessionError == \E i \in DOMAIN emitted : IsSessionError(emitted[i])

\* what a step leaves alone when it takes no handshake step: nothing is
\* written, no join is requested, the session fields keep their values, no
\* listener is registered and "connect" is not emitted
NoHandshakeStep ==
    /\ written' = written
    /\ joinCalls' = joinCalls
    /\ session' = session
    /\ Len(onceData') <= Len(onceData)
    /\ onData' = onData
    /\ CountEv(IsConnect)' = CountEv(IsConnect)

\* C11: every error is terminal: once an error notification has been emitted
\* (transport error, Connect Initial write failure, bad header, user
\* rejection, unhandled capability block) no second error is emitted for the
\* same failure, nothing more is written, later inbound buffers advance no
\* handshake step and "connect" is never emitted.
C11_ErrorIsTerminal ==
    [][HasError =>
          /\ NoHandshakeStep
          /\ CountEv(IsSessionError)' = CountEv(IsSessionError)]_vars

\* C11 for the errors the session raises itself (write failure, bad header,
\* read error, user rejection): these are terminal
C11_SessionErrorIsTerminal ==
    [][HasSessionError =>
          /\ NoHandshakeStep
          /\ CountEv(IsSessionError)' = CountEv(IsSessionError)]_vars

----------------------------------------------------------------------------
(* C12 *)

\* C12: in every state at most one one-shot "data" subscription is pending;
\* a step registers at most one, and the subscription that fires is removed,
\* so one inbound buffer advances the handshake by at most one step.
C12_OnePendingListener ==
    /\ [](Len(onceData) <= 1)
    /\ [][/\ Len(onceData') <= Len(onceData) + 1
          /\ Len(inbox') <= Len(inbox) + 1
          /\ (inbox' # inbox =>
                /\ Len(onceData) = 1
                /\ inbox'[Len(inbox')].h = onceData[1]
                /\ Len(onceData') <= 1)]_vars

\* a subscription has fired and the next one is pending
C12_Witness ==
    /\ JoinConfirmsReceived = 1
    /\ onceData = <<"recvChannelJoinConfirm">>

----------------------------------------------------------------------------
(* C13 *)

IsErectDomainRequest(w) == w = <<ERECT_DOMAIN_REQUEST * 4 + 0, 1, 0, 1, 0>>
IsAttachUserRequest(w) == w = <<ATTACH_USER_REQUEST * 4>>
AttachListenerRegistered ==
    \/ \E k \in DOMAIN onceData : onceData[k] = "recvAttachUserConfirm"
    \/ Handled("recvAttachUserConfirm") # {}

----------------------------------------------------------------------------
(* C14 *)

Closed == \E i \in DOMAIN emitted : emitted[i].ev = "close"

\* C14: when the transport signals closure the session emits "close" and the
\* pending one-shot listener is released: a buffer delivered after the
\* closure advances no handshake step, causes no write and does not lead to
\* "connect".
C14_CloseReleasesListeners ==
    /\ [](Closed => onceData = <<>>)
    /\ [][(Closed /\ (inbox' # inbox \/ idleData' # idleData)) => NoHandshakeStep]_vars

\* the part of C14 the code provides: the closure of the transport is
\* forwarded as one "close" notification and changes nothing else
C14_CloseForwarded ==
    [][(~Closed /\ Closed') =>
          /\ emitted' = Append(emitted, CloseEv)
          /\ UNCHANGED <<session, onceData, onData, written, joinCalls>>]_vars

----------------------------------------------------------------------------
(* C15 *)

\* C15: a buffer received while the Connect Response is awaited that is not a
\* well-formed Connect Response (outer application tag other than 0x66)
\* makes decoding report an error, which the session emits; no Erect Domain
\* Request and no Attach User Request is written.
C15_MalformedConnectResponse ==
    \A i \in Handled("recvConnectResponse") :
        ~IsConnectResponse(inbox[i].s) =>
            /\ ~panicked
            /\ HasSessionError
            /\ ~Wrote(ErectDomainRequestPDU)
            /\ ~Wrote(AttachUserRequestPDU)

----------------------------------------------------------------------------
(* The codec functions on their own: the header codec and the domain       *)
(* parameters, applied to arguments drawn from the sets below              *)

MCSDomainPDUs ==
    {ERECT_DOMAIN_REQUEST, DISCONNECT_PROVIDER_ULTIMATUM, ATTACH_USER_REQUEST,
     ATTACH_USER_CONFIRM, CHANNEL_JOIN_REQUEST, CHANNEL_JOIN_CONFIRM,
     SEND_DATA_REQUEST, SEND_DATA_INDICATION}

HeaderOptions == 0..3

\* ber.WriteInteger: universal tag INTEGER (2), the length, then the value
\* big-endian in 1, 2 or 4 bytes
BerWriteInteger(n) ==
    IF n <= 255 THEN <<2, 1, n>>
    ELSE IF n <= 65535 THEN <<2, 2>> \o U16BE(n)
    ELSE <<2, 4>> \o U16BE(n \div 65536) \o U16BE(n % 65536)

\* DomainParameters.BER: a DomainParameters value d is the sequence of its
\* eight fields in declaration order
DomainParametersBER(d) ==
    BerWriteInteger(d[1]) \o BerWriteInteger(d[2]) \o BerWriteInteger(d[3])
    \o BerWriteInteger(1) \o BerWriteInteger(0) \o BerWriteInteger(1)
    \o BerWriteInteger(d[7]) \o BerWriteInteger(2)

\* the domain parameters a client or a server may carry
DomainParameterInputs ==
    {NewDomainParameters(a, b, c, 1, 0, 1, g, 2) :
        a \in {1, 22, 34, 65535}, b \in {1, 2, 3, 64535}, c \in {0, 1, 65535},
        g \in {1056, 65528, 65535}}

InitCodec ==
    /\ channels = NewChannels
    /\ channelsConnected = 0
    /\ userId = 0
    /\ serverCoreData = Nil
    /\ serverNetworkData = Nil
    /\ serverSecurityData = Nil
    /\ onceData = <<>>
    /\ onData = 0
    /\ written = <<>>
    /\ emitted = <<>>
    /\ joinCalls = <<>>
    /\ inbox = <<>>
    /\ idleData = <<>>
    /\ connectFired = FALSE
    /\ panicked = FALSE
    /\ codec \in
         {[fn |-> "header", in |-> <<op, opt, e>>, out |-> <<>>, done |-> FALSE] :
             op \in MCSDomainPDUs, opt \in HeaderOptions, e \in MCSDomainPDUs}
         \cup
         {[fn |-> "domainParameters", in |-> d, out |-> <<>>, done |-> FALSE] :
             d \in DomainParameterInputs}

\* writeMCSPDUHeader(op, opt), then readMCSPDUHeader of the byte written
\* against the expected opcode e: out is <<byte, 1 if accepted else 0>>
headerCodec ==
    /\ codec.fn = "header"
    /\ ~codec.done
    /\ LET byte == writeMCSPDUHeader(codec.in[1], codec.in[2])
           ok == readMCSPDUHeader(byte, codec.in[3])
       IN  codec' = [codec EXCEPT !.out = <<byte, IF ok THEN 1 ELSE 0>>, !.done = TRUE]
    /\ UNCHANGED <<session, onceData, onData, written, emitted, joinCalls, inbox,
                   idleData, connectFired, panicked>>

\* DomainParameters.BER of the value, then the server-parameters path of
\* ReadConnectResponse on a response carrying the encoding
domainParametersRoundTrip ==
    /\ codec.fn = "domainParameters"
    /\ ~codec.done
    /\ LET enc == DomainParametersBER(codec.in)
           cResp == ReadConnectResponse(<<MCS_TYPE_CONNECT_RESPONSE>> \o enc)
       IN  codec' = [codec EXCEPT !.out = cResp.resp.domainParameters, !.done = TRUE]
    /\ UNCHANGED <<session, onceData, onData, written, emitted, joinCalls, inbox,
                   idleData, connectFired, panicked>>

NextCodec ==
    \/ headerCodec
    \/ domainParametersRoundTrip

CodecSpec == InitCodec /\ [][NextCodec]_vars

----------------------------------------------------------------------------
(* C16 *)

\* bitwise or of two bytes
RECURSIVE BitOr(_, _, _)
BitOr(a, b, bits) ==
    IF bits = 0 THEN 0
    ELSE (IF a % 2 = 1 \/ b % 2 = 1 THEN 1 ELSE 0) + 2 * BitOr(a \div 2, b \div 2, bits - 1)

\* C16: for every domain-PDU opcode op, option value opt in 0..3 and expected
\* opcode e, writeMCSPDUHeader(op, opt) writes the byte (op<<2)|opt, and
\* readMCSPDUHeader of that byte with expected opcode e is true exactly when
\* e = op, whatever opt is.
C16_HeaderCodec ==
    (codec.fn = "header" /\ codec.done) =>
        LET op == codec.in[1]
            opt == codec.in[2]
            e == codec.in[3]
        IN  /\ codec.out[1] = BitOr((op * 4) % 256, opt, 8)
            /\ (codec.out[2] = 1) <=> (e = op)

\* a header with option bits set was written and accepted for its own opcode
C16_Witness ==
    /\ codec.fn = "header"
    /\ codec.done
    /\ codec.in = <<CHANNEL_JOIN_CONFIRM, 3, CHANNEL_JOIN_CONFIRM>>
    /\ codec.out = <<63, 1>>

----------------------------------------------------------------------------
(* C17 *)

\* C17: encoding a DomainParameters value and decoding the result on the
\* server-parameters path of the Connect Response yields the original eight
\* values position by position.
C17_DomainParametersRoundTrip ==
    (codec.fn = "domainParameters" /\ codec.done) => codec.out = codec.in

----------------------------------------------------------------------------
(* C18 *)

\* C18: for every 16-bit assigned id n of an Attach User Confirm with result
\* 0, the user id recorded and the id of the appended "user" channel both
\* equal n + 1001 as an integer: the sum does not wrap modulo 2^16 and the
\* user channel id is never below 1001.
C18_UserIdIsSum ==
    \A i \in Handled("recvAttachUserConfirm") :
        IsAttachOk(inbox[i].s) =>
            LET n == AssignedId(inbox[i].s)
            IN  /\ userId = n + 1001
                /\ Len(channels) = 2
                /\ channels[2] = [id |-> n + 1001, name |-> "user"]
                /\ channels[2].id >= 1001

\* C18 as the code computes it: both ids are the sum reduced modulo 2^16
C18_UserIdIsSumMod16 ==
    \A i \in Handled("recvAttachUserConfirm") :
        IsAttachOk(inbox[i].s) =>
            LET n == AssignedId(inbox[i].s)
            IN  /\ userId = (n + 1001) % 65536
                /\ channels = UserRegistry((n + 1001) % 65536)

----------------------------------------------------------------------------
(* C19 *)

\* C19: the joined counter is at most the registry length in every state,
\* and connectChannels reads the registry only at an index below its length:
\* with the counter equal to the length it returns after emitting "connect",
\* without indexing channels[channelsConnected] and without incrementing.
C19_IndexInRange ==
    /\ channelsConnected <= Len(channels)
    /\ ~panicked
    /\ (Connected => channelsConnected = Len(channels))

\* the parts of C19 that hold: the counter stays within the registry length
\* and is not incremented once "connect" is emitted
C19_CounterInRange ==
    /\ channelsConnected <= Len(channels)
    /\ (Connected => channelsConnected = Len(channels))

----------------------------------------------------------------------------
(* C20 *)

\* C20: a user id is recorded and the "user" channel appended only when the
\* header byte, the result and the 16-bit assigned id were all read from the
\* buffer; an Attach User Confirm truncated before the assigned id gives an
\* error notification, leaves the registry at [(1003,"global")] and starts no
\* channel join.
C20_TruncatedAttachConfirm ==
    /\ (userId # 0 \/ Len(channels) > 1) =>
          \E i \in Handled("recvAttachUserConfirm") : Len(inbox[i].s) >= 4
    /\ \A i \in Handled("recvAttachUserConfirm") :
          LET s == inbox[i].s
          IN  (Len(s) \in {2, 3} /\ Opcode(s[1]) = ATTACH_USER_CONFIRM /\ s[2] = 0) =>
                  /\ HasSessionError
                  /\ channels = <<[id |-> 1003, name |-> "global"]>>
                  /\ NoJoinStarted

====
